---- MODULE Spec2Model ----
(***************************************************************************)
(* Model of the shift search of iss/stitch/shift.py: shift_score,          *)
(* extend_array, refined_shifts, get_best_shift and compute_shift.         *)
(*                                                                         *)
(* Coordinates and candidate shifts are integers (the docstrings call the  *)
(* point arrays and the shift arrays "numpy integer array"), z_scale is a  *)
(* positive integer, so every product and quotient the code forms is an    *)
(* exact integer.  Scores are fixed point: the Gaussian kernel             *)
(* exp(-d^2/(2*thresh^2)) is tabulated for thresh = 2 in units of 10^-6    *)
(* as a function of the squared distance d^2, and every score is kept in   *)
(* units of 1/(4*10^6) so that the median and the quartiles that numpy     *)
(* obtains by linear interpolation are integers too.                       *)
(***************************************************************************)
EXTENDS Integers, Sequences, FiniteSets, TLC

VARIABLES
    pc,             \* position in compute_shift
    arg,            \* the arguments of the call, as the caller passed them
    yxz_base,       \* the caller's base array (compute_shift writes to it)
    yxz_transform,  \* the caller's target array (compute_shift writes to it)
    y_shifts, x_shifts, z_shifts,   \* the local (rebound) candidate axes
    initial_shifts, \* line 155
    shift, score,   \* current best shift (z scaled) and its score
    min_score,      \* the min_score in use: None or Some(value)
    calls,          \* the get_best_shift calls made so far, in order
    ret,            \* the tuple returned (empty until the return)
    err,            \* the exception raised ("none" while there is none)
    locals          \* the state of the other operations (empty in compute_shift)

vars == <<pc, arg, yxz_base, yxz_transform, y_shifts, x_shifts, z_shifts,
          initial_shifts, shift, score, min_score, calls, ret, err, locals>>

\* Python's None and a value that may be None
None == << >>

Some(v) == << v >>

(***************************************************************************)
(* Bounds of the input space.                                              *)
(***************************************************************************)
MaxPts == 2
MaxV == 2
MaxWiden == 1
MaxZScale == 2
MaxDist == 10
MaxIters == 3
MaxTiles == 3
MaxShift == 1
MaxColour == 1
MaxExtend == 3
MaxStep == 5
MaxClicks == 5

(***************************************************************************)
(* Fixed point arithmetic of the scores.                                   *)
(***************************************************************************)
ScoreThresh == 2
ScoreUnit == 4

\* round(10^6 * exp(-d2/8)) for d2 = 0, 1, 2, ...: the kernel of line 17
\* for thresh = 2; it rounds to 0 from d2 = 117 on.
KernelTable ==
    << 1000000, 882497, 778801, 687289, 606531, 535261, 472367, 416862,
       367879, 324652, 286505, 252840, 223130, 196912, 173774, 153355,
       135335, 119433, 105399, 93014, 82085, 72440, 63928, 56416,
       49787, 43937, 38774, 34218, 30197, 26649, 23518, 20754,
       18316, 16163, 14264, 12588, 11109, 9804, 8652, 7635,
       6738, 5946, 5248, 4631, 4087, 3607, 3183, 2809,
       2479, 2187, 1930, 1704, 1503, 1327, 1171, 1033,
       912, 805, 710, 627, 553, 488, 431, 380,
       335, 296, 261, 231, 203, 180, 158, 140,
       123, 109, 96, 85, 75, 66, 58, 51,
       45, 40, 35, 31, 28, 24, 21, 19,
       17, 15, 13, 11, 10, 9, 8, 7,
       6, 5, 5, 4, 4, 3, 3, 3,
       2, 2, 2, 2, 1, 1, 1, 1,
       1, 1, 1, 1, 1 >>

\* a hard count of the neighbours within thresh instead of the Gaussian
\* kernel: a faulty variant that C13 tells from the code
Kernel_HardCount(d2) == IF d2 <= ScoreThresh * ScoreThresh THEN KernelTable[1] ELSE 0

Kernel(d2) == IF d2 < Len(KernelTable) THEN KernelTable[d2 + 1] ELSE 0

(***************************************************************************)
(* Small helpers.                                                          *)
(***************************************************************************)
Range(f) == {f[i] : i \in DOMAIN f}

MinOf(S) == CHOOSE m \in S : \A e \in S : m <= e

MaxOf(S) == CHOOSE m \in S : \A e \in S : m >= e

RECURSIVE SumSeq(_)
SumSeq(q) == IF q = << >> THEN 0 ELSE Head(q) + SumSeq(Tail(q))

\* ceil(a / b) for b > 0
CeilDiv(a, b) == -((-a) \div b)

\* numpy.arange(start, stop, step) for an integer start and step > 0 and a stop
\* given as twice its value (the code's stops are integers plus step/2):
\* the values start + i*step that are below the stop.
ARange(start, stop2, step) ==
    LET n == CeilDiv(stop2 - 2 * start, 2 * step)
    IN  [i \in 1..(IF n > 0 THEN n ELSE 0) |-> start + (i - 1) * step]

\* numpy.mean(numpy.ediff1d(array)): the differences telescope, and every
\* array of the model has a constant integer step, so the quotient is exact.
MeanSpacing(array) == (array[Len(array)] - array[1]) \div (Len(array) - 1)

Raise(e) == [err |-> e]

Value(v) == [err |-> "none", val |-> v]

(***************************************************************************)
(* shift_score, lines 7-17.  distances holds the squared distances.        *)
(***************************************************************************)
shift_score(distances, thresh) ==
    ScoreUnit * SumSeq([i \in DOMAIN distances |-> Kernel(distances[i])])

(***************************************************************************)
(* extend_array, lines 20-47.  A single value has no spacing: numpy.mean   *)
(* of the empty difference array is nan and numpy.arange raises on it.     *)
(***************************************************************************)
extend_array(array, extend_scale, direction) ==
    IF extend_scale = 0 THEN Value(array)
    ELSE IF Len(array) = 1 THEN Raise("ValueError")
    ELSE LET step == MeanSpacing(array)
             amin == MinOf(Range(array))
             amax == MaxOf(Range(array))
             ext_below == ARange(amin - extend_scale * step, 2 * amin, step)
             ext_above == ARange(amax + step,
                                 2 * (amax + extend_scale * step) + step, step)
         IN  IF direction = "below" THEN Value(ext_below \o array)
             ELSE IF direction = "above" THEN Value(array \o ext_above)
             ELSE IF direction = "both" THEN Value(ext_below \o array \o ext_above)
             ELSE Raise("ValueError")

(***************************************************************************)
(* refined_shifts, lines 50-71.  refined_scale is num/den.                 *)
(***************************************************************************)
refined_shifts(shifts, best_shift, refined_num, refined_den, extend_scale) ==
    IF Len(shifts) = 1 THEN shifts
    ELSE LET step == MeanSpacing(shifts)
             refined_step == CeilDiv(refined_num * step, refined_den)
         IN  ARange(best_shift - extend_scale * step,
                    2 * (best_shift + extend_scale * step) + refined_step,
                    refined_step)

(***************************************************************************)
(* get_best_shift, lines 74-108.                                           *)
(***************************************************************************)
\* numpy.array(numpy.meshgrid(y, x, z)).T.reshape(-1, 3): the rows
\* <<y, x, z>> of the Cartesian product, x running fastest and z slowest.
AllShifts(ys, xs, zs) ==
    LET ny == Len(ys)
        nx == Len(xs)
    IN  [i \in 1..(ny * nx * Len(zs)) |->
            << ys[(((i - 1) % (ny * nx)) \div nx) + 1],
               xs[((i - 1) % nx) + 1],
               zs[((i - 1) \div (ny * nx)) + 1] >>]

\* utils.base.setdiff2d: the rows of array1 that are not rows of array2.
setdiff2d(array1, array2) == Range(array1) \ Range(array2)

\* z_shifts * z_scale, and yxz[:, 2] * z_scale
ScaleAxis(zs, z_scale) == [i \in DOMAIN zs |-> zs[i] * z_scale]

ScaleZ(yxz, z_scale) ==
    [i \in DOMAIN yxz |-> << yxz[i][1], yxz[i][2], yxz[i][3] * z_scale >>]

Dist2(p, q) ==
    (p[1] - q[1]) * (p[1] - q[1]) + (p[2] - q[2]) * (p[2] - q[2])
        + (p[3] - q[3]) * (p[3] - q[3])

\* NearestNeighbors(n_neighbors=1).fit(fitted).kneighbors(query): the
\* (squared) distance of every query point to its nearest fitted point.
kneighbors(fitted, query) ==
    [i \in DOMAIN query |->
        MinOf({Dist2(query[i], fitted[j]) : j \in DOMAIN fitted})]

\* line 104 with the shift subtracted: a faulty variant that C14 tells from
\* the code
ShiftScoreOf_Minus(base, transform, thresh, s) ==
    shift_score(
        kneighbors(transform,
                   [i \in DOMAIN base |->
                       << base[i][1] - s[1], base[i][2] - s[2], base[i][3] - s[3] >>]),
        thresh)

\* lines 104-106: the score of one candidate shift
ShiftScoreOf(base, transform, thresh, s) ==
    shift_score(
        kneighbors(transform,
                   [i \in DOMAIN base |->
                       << base[i][1] + s[1], base[i][2] + s[2], base[i][3] + s[3] >>]),
        thresh)

\* numpy.percentile(score, 25 * quarter) of the ascending scores: linear
\* interpolation around position (n - 1) * quarter / 4
Percentile(sorted, quarter) ==
    LET h == (Len(sorted) - 1) * quarter
        lo == sorted[(h \div 4) + 1]
        hi == IF h % 4 = 0 THEN lo ELSE sorted[(h \div 4) + 2]
    IN  lo + ((h % 4) * (hi - lo)) \div 4

\* the lower of the two middle values instead of their mean: a faulty
\* variant that C8 tells from the code
Median_Lower(sorted) == sorted[(Len(sorted) + 1) \div 2]

\* numpy.median
Median(sorted) == Percentile(sorted, 2)

\* scipy.stats.iqr
Iqr(sorted) == Percentile(sorted, 3) - Percentile(sorted, 1)

\* The possible outcomes of a call.  Without ignore_shifts the rows keep the
\* meshgrid order and argmax takes the first maximum; setdiff2d fixes no
\* order of its rows, so with ignore_shifts any maximal row may come first.
get_best_shift(base, transform, score_thresh, ys, xs, zs, ignore_shifts) ==
    LET grid == AllShifts(ys, xs, zs)
        all_shifts == IF ignore_shifts = None THEN Range(grid)
                      ELSE setdiff2d(grid, ignore_shifts[1])
        rows == SelectSeq(grid, LAMBDA c : c \in all_shifts)
        sc == [i \in DOMAIN rows |-> ShiftScoreOf(base, transform, score_thresh, rows[i])]
        sorted == SortSeq(sc, LAMBDA a, b : a < b)
        best == sorted[Len(sorted)]
        best_shift_ind == MinOf({i \in DOMAIN rows : sc[i] = best})
        winners == IF ignore_shifts = None THEN {rows[best_shift_ind]}
                   ELSE {rows[i] : i \in {j \in DOMAIN rows : sc[j] = best}}
    IN  IF Len(transform) = 0 THEN {Raise("ValueError")}                 \* line 101
        ELSE IF all_shifts # {} /\ Len(base) = 0 THEN {Raise("ValueError")} \* line 105
        ELSE IF all_shifts = {} THEN {Raise("ValueError")}               \* line 107
        ELSE {[err |-> "none", shift |-> w, score |-> best,
               median |-> Median(sorted), iqr |-> Iqr(sorted), scored |-> all_shifts]
                 : w \in winners}

(***************************************************************************)
(* The calls of compute_shift that the model makes.                        *)
(***************************************************************************)
\* the i-th point of the clouds
Pt(i) == << (3 * (i - 1)) % 5, (i - 1) % 3, (i - 1) % 2 >>

Cloud(n) == [i \in 1..n |-> Pt(i)]

Translate(yxz, v) ==
    [i \in DOMAIN yxz |-> << yxz[i][1] + v[1], yxz[i][2] + v[2], yxz[i][3] + v[3] >>]

\* numpy.arange(-half * step, half * step + 1, step)
Axis(half, step) == ARange(-half * step, 2 * (half * step + 1), step)

BaseClouds == {Cloud(n) : n \in 0..MaxPts}

Translations == (-MaxV..MaxV) \X {0} \X {0, 1}

\* the candidate axes y_shifts, x_shifts, z_shifts of a call
AxisTriples ==
    { << Axis(2, 1), Axis(0, 1), Axis(0, 1) >>,
      << Axis(1, 2), Axis(0, 1), Axis(0, 1) >>,
      << Axis(2, 2), Axis(0, 1), Axis(0, 1) >>,
      << Axis(1, 1), Axis(1, 1), Axis(0, 1) >>,
      << Axis(1, 2), Axis(0, 1), Axis(1, 1) >>,
      << Axis(0, 1), Axis(0, 1), Axis(0, 1) >>,
      << Axis(1, 1), Axis(1, 1), Axis(1, 1) >> }

\* y_widen, x_widen, z_widen
Widens == {w \in (0..MaxWiden) \X (0..MaxWiden) \X (0..MaxWiden) :
              w[1] + w[2] + w[3] <= MaxWiden}

\* min_score and min_score_auto_param: no min_score with the parameter the
\* docstring expects (5) and with a smaller one, or a min_score given, one
\* of them the score of a single exact match
MinScores ==
    {<<None, 5>>, <<None, 2>>, <<None, 1>>, <<Some(ScoreUnit * Kernel(0)), 5>>,
     <<Some(ScoreUnit * Kernel(3)), 5>>}

Init ==
    /\ \E b \in BaseClouds, m \in MinScores, ax \in AxisTriples, w \in Widens,
          zc \in 1..MaxZScale :
         \E t \in {<< >>, Cloud(MaxPts)} \cup {Translate(b, v) : v \in Translations} :
            arg = [yxz_base |-> b, yxz_transform |-> t, min_score |-> m[1],
                   min_score_auto_param |-> m[2], shift_score_thresh |-> ScoreThresh,
                   y_shifts |-> ax[1], x_shifts |-> ax[2], z_shifts |-> ax[3],
                   y_widen |-> w[1], x_widen |-> w[2], z_widen |-> w[3], z_scale |-> zc]
    /\ pc = "l150"
    /\ yxz_base = arg.yxz_base
    /\ yxz_transform = arg.yxz_transform
    /\ y_shifts = arg.y_shifts
    /\ x_shifts = arg.x_shifts
    /\ z_shifts = arg.z_shifts
    /\ initial_shifts = << >>
    /\ shift = << >>
    /\ score = 0
    /\ min_score = arg.min_score
    /\ calls = << >>
    /\ ret = << >>
    /\ err = "none"
    /\ locals = << >>

(***************************************************************************)
(* compute_shift, lines 111-181, one action per search.                    *)
(***************************************************************************)
CallRecord(phase, ys, xs, zs, ignore_shifts, out) ==
    [phase |-> phase, y_shifts |-> ys, x_shifts |-> xs, z_shifts |-> zs,
     ignore_shifts |-> ignore_shifts, out |-> out]

Raised(e) ==
    /\ pc' = "raised"
    /\ err' = e

\* line 155 with the scaling of z left out: a faulty variant that C7 tells
\* from the code
InitialShifts_Unscaled(ys, xs, zs, z_scale) == AllShifts(ys, xs, zs)

\* line 155 with nothing kept: a faulty variant that C23 tells from the code
InitialShifts_Empty(ys, xs, zs, z_scale) == << >>

\* line 155: the rows of the coarse grid, kept so as not to score them twice
InitialShifts(ys, xs, zs, z_scale) == AllShifts(ys, xs, ScaleAxis(zs, z_scale))

\* line 157 with min_score_auto_param left out: a faulty variant that C9
\* tells from the code
AutoMinScore_NoParam(score_median, score_iqr, min_score_auto_param) ==
    score_median + score_iqr

\* line 157: the min_score used when none is given
AutoMinScore(score_median, score_iqr, min_score_auto_param) ==
    score_median + min_score_auto_param * score_iqr

\* max(y_widen, x_widen, z_widen) > 0
WidenAsked == MaxOf({arg.y_widen, arg.x_widen, arg.z_widen}) > 0

\* lines 150-157: scale z in place, coarse search, initial_shifts, min_score
CoarseSearch ==
    /\ pc = "l150"
    /\ yxz_base' = ScaleZ(yxz_base, arg.z_scale)
    /\ yxz_transform' = ScaleZ(yxz_transform, arg.z_scale)
    /\ LET zs == ScaleAxis(z_shifts, arg.z_scale)
       IN  \E o \in get_best_shift(yxz_base', yxz_transform', arg.shift_score_thresh,
                                   y_shifts, x_shifts, zs, None) :
             /\ calls' = Append(calls, CallRecord("coarse", y_shifts, x_shifts, zs, None, o))
             /\ IF o.err # "none"
                THEN /\ Raised(o.err)
                     /\ UNCHANGED <<shift, score, initial_shifts, min_score>>
                ELSE /\ shift' = o.shift
                     /\ score' = o.score
                     /\ initial_shifts' = InitialShifts(y_shifts, x_shifts, z_shifts,
                                                        arg.z_scale)
                     /\ min_score' = IF min_score = None
                                     THEN Some(AutoMinScore(o.median, o.iqr,
                                                            arg.min_score_auto_param))
                                     ELSE min_score
                     /\ pc' = "l158"
                     /\ err' = err
    /\ UNCHANGED <<locals, arg, y_shifts, x_shifts, z_shifts, ret>>

\* lines 158-164: the widened search
WidenedSearch ==
    /\ pc = "l158"
    /\ score < min_score[1] /\ WidenAsked
    /\ LET ey == extend_array(y_shifts, arg.y_widen, "both")
           ex == extend_array(x_shifts, arg.x_widen, "both")
           ez == extend_array(z_shifts, arg.z_widen, "both")
       IN  IF ey.err # "none" \/ ex.err # "none" \/ ez.err # "none"
           THEN /\ Raised("ValueError")
                /\ UNCHANGED <<y_shifts, x_shifts, z_shifts, shift, score, calls>>
           ELSE /\ y_shifts' = ey.val
                /\ x_shifts' = ex.val
                /\ z_shifts' = ez.val
                /\ LET zs == ScaleAxis(ez.val, arg.z_scale)
                   IN  \E o \in get_best_shift(yxz_base, yxz_transform,
                                               arg.shift_score_thresh,
                                               ey.val, ex.val, zs, Some(initial_shifts)) :
                         /\ calls' = Append(calls, CallRecord("widened", ey.val, ex.val, zs,
                                                              Some(initial_shifts), o))
                         /\ IF o.err # "none"
                            THEN /\ Raised(o.err)
                                 /\ UNCHANGED <<shift, score>>
                            ELSE /\ shift' = o.shift
                                 /\ score' = o.score
                                 /\ pc' = "l165"
                                 /\ err' = err
    /\ UNCHANGED <<locals, arg, yxz_base, yxz_transform, initial_shifts, min_score, ret>>

\* line 158, condition false
NoWidenedSearch ==
    /\ pc = "l158"
    /\ ~(score < min_score[1] /\ WidenAsked)
    /\ pc' = "l165"
    /\ UNCHANGED <<locals, arg, yxz_base, yxz_transform, y_shifts, x_shifts, z_shifts,
                   initial_shifts, shift, score, min_score, calls, ret, err>>

\* refined_scale of lines 175-177 (1e-50): refined_step is 1 whatever the step
TinyScale == << 1, 1000000000 >>

\* lines 165-173: the refined search with half the step
RefinedSearch ==
    /\ pc = "l165"
    /\ score > min_score[1]
    /\ LET ys == refined_shifts(y_shifts, shift[1], 1, 2, 2)
           xs == refined_shifts(x_shifts, shift[2], 1, 2, 2)
           zu == refined_shifts(z_shifts, shift[3] \div arg.z_scale, 1, 2, 2)
           zs == ScaleAxis(zu, arg.z_scale)
       IN  /\ y_shifts' = ys
           /\ x_shifts' = xs
           /\ z_shifts' = zu
           /\ \E o \in get_best_shift(yxz_base, yxz_transform, arg.shift_score_thresh,
                                      ys, xs, zs, Some(initial_shifts)) :
                /\ calls' = Append(calls, CallRecord("refined", ys, xs, zs, Some(initial_shifts), o))
                /\ IF o.err # "none"
                   THEN /\ Raised(o.err)
                        /\ shift' = shift
                   ELSE /\ shift' = IF o.score > score THEN o.shift ELSE shift
                        /\ pc' = "l175"
                        /\ err' = err
    /\ UNCHANGED <<locals, arg, yxz_base, yxz_transform, initial_shifts, score, min_score, ret>>

\* lines 174-180: the final search with a step of 1, and the unscaling of z
FinalSearch ==
    /\ pc = "l175"
    /\ LET ys == refined_shifts(y_shifts, shift[1], TinyScale[1], TinyScale[2], 1)
           xs == refined_shifts(x_shifts, shift[2], TinyScale[1], TinyScale[2], 1)
           zu == refined_shifts(z_shifts, shift[3] \div arg.z_scale,
                                TinyScale[1], TinyScale[2], 1)
           zs == ScaleAxis(zu, arg.z_scale)
       IN  /\ y_shifts' = ys
           /\ x_shifts' = xs
           /\ z_shifts' = zu
           /\ \E o \in get_best_shift(yxz_base, yxz_transform, arg.shift_score_thresh,
                                      ys, xs, zs, Some(initial_shifts)) :
                /\ calls' = Append(calls, CallRecord("final", ys, xs, zs, Some(initial_shifts), o))
                /\ IF o.err # "none"
                   THEN /\ Raised(o.err)
                        /\ UNCHANGED <<shift, score>>
                   ELSE /\ shift' = << o.shift[1], o.shift[2], o.shift[3] \div arg.z_scale >>
                        /\ score' = o.score
                        /\ pc' = "l181"
                        /\ err' = err
    /\ UNCHANGED <<locals, arg, yxz_base, yxz_transform, initial_shifts, min_score, ret>>

\* line 165, condition false
NoRefinedSearch ==
    /\ pc = "l165"
    /\ ~(score > min_score[1])
    /\ pc' = "l181"
    /\ UNCHANGED <<locals, arg, yxz_base, yxz_transform, y_shifts, x_shifts, z_shifts,
                   initial_shifts, shift, score, min_score, calls, ret, err>>

\* line 181: shift.astype(int) leaves the integer components as they are
Return ==
    /\ pc = "l181"
    /\ ret' = << shift, score, min_score[1] >>
    /\ pc' = "returned"
    /\ UNCHANGED <<locals, arg, yxz_base, yxz_transform, y_shifts, x_shifts, z_shifts,
                   initial_shifts, shift, score, min_score, calls, err>>

Next ==
    \/ CoarseSearch
    \/ WidenedSearch
    \/ NoWidenedSearch
    \/ RefinedSearch
    \/ NoRefinedSearch
    \/ FinalSearch
    \/ Return

Spec == Init /\ [][Next]_vars

(***************************************************************************)
(* What the properties below speak about.                                  *)
(***************************************************************************)
Finished == pc \in {"returned", "raised"}

\* the searches made in a phase, as indices of calls
CallsOf(phase) == {i \in DOMAIN calls : calls[i].phase = phase}

Performed(phase) == CallsOf(phase) # {}

\* the call of a phase that is known to have been made
TheCall(phase) == calls[CHOOSE i \in CallsOf(phase) : TRUE]

\* the coarse search returned, so that line 158 was reached
CoarseDone == pc \notin {"l150"} /\ Len(calls) >= 1 /\ calls[1].out.err = "none"

\* the coarse grid of the call, z in scaled units
CoarseGrid ==
    {<< y, x, z * arg.z_scale >> :
        y \in Range(arg.y_shifts), x \in Range(arg.x_shifts), z \in Range(arg.z_shifts)}

\* the Cartesian product of the axes passed to a search
ProductOf(c) ==
    {<< y, x, z >> : y \in Range(c.y_shifts), x \in Range(c.x_shifts),
                     z \in Range(c.z_shifts)}

\* the translations v with target = base + v
TrueShifts ==
    {v \in (-(MaxV + 1)..(MaxV + 1)) \X (-1..1) \X (-1..1) :
        arg.yxz_transform = Translate(arg.yxz_base, v)}

InRange(v) ==
    /\ MinOf(Range(arg.y_shifts)) <= v[1] /\ v[1] <= MaxOf(Range(arg.y_shifts))
    /\ MinOf(Range(arg.x_shifts)) <= v[2] /\ v[2] <= MaxOf(Range(arg.x_shifts))
    /\ MinOf(Range(arg.z_shifts)) <= v[3] /\ v[3] <= MaxOf(Range(arg.z_shifts))

(***************************************************************************)
(* The model keeps what its arithmetic relies on: every candidate axis is  *)
(* ascending with a constant integer step, and the best z is a multiple    *)
(* of z_scale wherever the code divides it by z_scale.                     *)
(***************************************************************************)
ConstantStep(a) ==
    \A i \in 1..(Len(a) - 1) : a[i + 1] - a[i] = a[2] - a[1] /\ a[2] > a[1]

ModelSound ==
    /\ ConstantStep(y_shifts) /\ ConstantStep(x_shifts) /\ ConstantStep(z_shifts)
    /\ pc \in {"l165", "l175"} => shift[3] % arg.z_scale = 0

(***************************************************************************)
(* C1.  For a non-empty base and a target equal to the base translated by  *)
(* an integer vector v that lies within the candidate range of every       *)
(* axis, compute_shift returns shift = v.                                  *)
(* Stated as the claim has it; the code does not satisfy it.               *)
(***************************************************************************)
C1_RecoversTranslation ==
    (Finished /\ Len(arg.yxz_base) > 0) =>
        \A v \in TrueShifts : InRange(v) => (pc = "returned" /\ ret[1] = v)

(***************************************************************************)
(* C2.  compute_shift performs the widened search if and only if the best  *)
(* score of the coarse search is below min_score and one of the widen      *)
(* parameters is positive; the widened search runs over every axis         *)
(* extended on both sides by that axis's widen count of values at the      *)
(* axis's step.                                                            *)
(* Stated as the claim has it; the code does not satisfy it.               *)
(***************************************************************************)
\* array with k more values on either side at its own step
ExtendedBothSides(a, k) ==
    IF k = 0 THEN a
    ELSE [i \in 1..(Len(a) + 2 * k) |-> a[1] + (i - 1 - k) * (a[2] - a[1])]

PastWidenDecision == CoarseDone /\ pc # "l158"

WidenCondition == calls[1].out.score < min_score[1] /\ WidenAsked

\* C2: past line 158, the widened search was made if and only if the coarse
\* score was below min_score and a widen parameter positive, over the axes
\* extended on both sides
C2_WidenedIffBelowAndAsked ==
    PastWidenDecision =>
        /\ Performed("widened") <=> WidenCondition
        /\ Performed("widened") =>
             /\ TheCall("widened").y_shifts = ExtendedBothSides(arg.y_shifts, arg.y_widen)
             /\ TheCall("widened").x_shifts = ExtendedBothSides(arg.x_shifts, arg.x_widen)
             /\ TheCall("widened").z_shifts =
                    ScaleAxis(ExtendedBothSides(arg.z_shifts, arg.z_widen), arg.z_scale)

(***************************************************************************)
(* C3.  compute_shift refines if and only if the best score after the      *)
(* coarse (and widened) search is above min_score, and then runs exactly   *)
(* two searches: one over 2 steps either side of the best shift at half    *)
(* the step, rounded up, then one over 1 step either side of the best      *)
(* shift at a step of 1.                                                   *)
(* Stated as the claim has it; the code does not satisfy it.               *)
(***************************************************************************)
\* the values from centre - reach to centre + reach, step apart
Window(centre, reach, step) ==
    [i \in 1..((2 * reach) \div step + 1) |-> centre - reach + (i - 1) * step]

\* the best shift and score of the last search before the refinement
BeforeRefinement ==
    IF Performed("widened") THEN TheCall("widened").out ELSE calls[1].out

\* line 165 was reached: a search of the refinement was made or skipped
PastRefineDecision ==
    \/ pc \in {"l175", "l181", "returned"}
    \/ pc = "raised" /\ Performed("refined")

\* the axis a refined around centre c, a single value being kept
HalfStepWindow(a, c) ==
    IF Len(a) = 1 THEN a
    ELSE Window(c, 2 * (a[2] - a[1]), CeilDiv(a[2] - a[1], 2))

UnitStepWindow(a, c) ==
    IF Len(a) = 1 THEN a ELSE Window(c, a[2] - a[1], 1)

\* the axes searched before the refinement, z unscaled
AxesBeforeRefinement ==
    << ExtendedBothSides(arg.y_shifts, IF Performed("widened") THEN arg.y_widen ELSE 0),
       ExtendedBothSides(arg.x_shifts, IF Performed("widened") THEN arg.x_widen ELSE 0),
       ExtendedBothSides(arg.z_shifts, IF Performed("widened") THEN arg.z_widen ELSE 0) >>

\* the best shift once the first refinement has been searched, z scaled
BestAfterFirstRefinement ==
    IF TheCall("refined").out.score > BeforeRefinement.score
    THEN TheCall("refined").out.shift
    ELSE BeforeRefinement.shift

RefinementAsClaimed ==
        /\ Performed("refined") <=> BeforeRefinement.score > min_score[1]
        /\ Performed("final") <=> BeforeRefinement.score > min_score[1]
        /\ Cardinality(CallsOf("refined")) <= 1
        /\ Cardinality(CallsOf("final")) <= 1
        /\ Performed("refined") =>
             LET b == BeforeRefinement.shift
                 c == TheCall("refined")
             IN  /\ c.y_shifts = HalfStepWindow(AxesBeforeRefinement[1], b[1])
                 /\ c.x_shifts = HalfStepWindow(AxesBeforeRefinement[2], b[2])
                 /\ c.z_shifts =
                        ScaleAxis(HalfStepWindow(AxesBeforeRefinement[3],
                                                 b[3] \div arg.z_scale), arg.z_scale)
        /\ Performed("final") =>
             LET b == BestAfterFirstRefinement
                 r == TheCall("refined")
                 c == TheCall("final")
             IN  /\ c.y_shifts = UnitStepWindow(r.y_shifts, b[1])
                 /\ c.x_shifts = UnitStepWindow(r.x_shifts, b[2])
                 /\ c.z_shifts =
                        ScaleAxis(UnitStepWindow(
                                      HalfStepWindow(AxesBeforeRefinement[3],
                                                     BeforeRefinement.shift[3] \div arg.z_scale),
                                      b[3] \div arg.z_scale), arg.z_scale)
\* C3: once line 165 is passed and compute_shift has ended, the refinement
\* was made as claimed: both searches if and only if the score was above
\* min_score, over the claimed windows
C3_TwoRefinementsIffAbove == (Finished /\ PastRefineDecision) => RefinementAsClaimed

(***************************************************************************)
(* C4.  A refinement search replaces the best shift only by a shift of a   *)
(* higher score, so compute_shift returns a score that is not below the    *)
(* best score found before the refinement.                                 *)
(* Stated as the claim has it; the code does not satisfy it.               *)
(***************************************************************************)
C4_RefinementNeverLowersScore ==
    (pc = "returned" /\ Performed("refined")) => ret[2] >= BeforeRefinement.score

(***************************************************************************)
(* C5.  On every path the z of the returned shift is in unscaled units:    *)
(* it is the chosen scaled z candidate divided by z_scale.                 *)
(* Stated as the claim has it; the code does not satisfy it.               *)
(***************************************************************************)
\* the z, in scaled units, of the candidate that the returned shift comes from
ChosenScaledZ ==
    IF Performed("final") THEN TheCall("final").out.shift[3]
    ELSE BeforeRefinement.shift[3]

\* C5: the returned z times z_scale is the chosen scaled z candidate
C5_ReturnedZUnscaled ==
    pc = "returned" => ret[1][3] * arg.z_scale = ChosenScaledZ

(***************************************************************************)
(* C6.  compute_shift leaves the caller's point arrays as they were: after *)
(* the call every coordinate of yxz_base and of yxz_transform has the      *)
(* value it had before the call.                                           *)
(* Stated as the claim has it; the code does not satisfy it.               *)
(***************************************************************************)
C6_InputsUnchanged ==
    pc = "returned" =>
        (yxz_base = arg.yxz_base /\ yxz_transform = arg.yxz_transform)

(***************************************************************************)
(* C7.  In the widened search and in both refinement searches the          *)
(* candidates scored are exactly the Cartesian product of the axes of the  *)
(* search minus the coarse grid: no candidate of the coarse search is      *)
(* scored again (and a search that raises had no candidate left).          *)
(***************************************************************************)
C7_LaterSearchesExcludeCoarseGrid ==
    \A i \in DOMAIN calls :
        calls[i].phase # "coarse" =>
            IF calls[i].out.err = "none"
            THEN /\ calls[i].out.scored = ProductOf(calls[i]) \ CoarseGrid
                 /\ calls[i].out.scored \cap calls[1].out.scored = {}
                 /\ calls[i].out.shift \in calls[i].out.scored
            ELSE ProductOf(calls[i]) \ CoarseGrid = {}

\* all three later searches were made, each over axes that meet the coarse grid
C7_Witness ==
    /\ pc = "returned"
    /\ Performed("widened") /\ Performed("refined") /\ Performed("final")
    /\ \A i \in DOMAIN calls : ProductOf(calls[i]) \cap CoarseGrid # {}

(***************************************************************************)
(* C8.  get_best_shift returns a candidate of maximum score among the      *)
(* candidates of the Cartesian product that are not in ignore_shifts,      *)
(* that score, and the median and the interquartile range of the scores.   *)
(* The claim takes the two statistics over the whole grid                  *)
(* (C8_StatisticsOverWholeGrid); the code takes them over the candidates   *)
(* it scored, the grid minus ignore_shifts (C8_BestAndStatisticsOfScored). *)
(***************************************************************************)
\* the scores of the candidates S, on the arrays as the searches see them
ScoresOn(S) ==
    [c \in S |-> ShiftScoreOf(yxz_base, yxz_transform, arg.shift_score_thresh, c)]

\* the k-th smallest value of f, by counting
KthSmallest(f, k) ==
    CHOOSE v \in Range(f) :
        /\ Cardinality({c \in DOMAIN f : f[c] < v}) < k
        /\ Cardinality({c \in DOMAIN f : f[c] <= v}) >= k

\* the value at position (n - 1) * quarter / 4 of the ascending values of f,
\* interpolated linearly between its two neighbours
QuartileOf(f, quarter) ==
    LET h == (Cardinality(DOMAIN f) - 1) * quarter
        below == KthSmallest(f, (h \div 4) + 1)
        above == IF h % 4 = 0 THEN below ELSE KthSmallest(f, (h \div 4) + 2)
    IN  (below * (4 - (h % 4)) + above * (h % 4)) \div 4

MedianOf(f) ==
    LET n == Cardinality(DOMAIN f)
    IN  IF n % 2 = 1 THEN KthSmallest(f, (n + 1) \div 2)
        ELSE (KthSmallest(f, n \div 2) + KthSmallest(f, n \div 2 + 1)) \div 2

IqrOf(f) == QuartileOf(f, 3) - QuartileOf(f, 1)

\* the candidates a search may choose from
NotIgnored(c) ==
    IF c.ignore_shifts = None THEN ProductOf(c)
    ELSE ProductOf(c) \ Range(c.ignore_shifts[1])

LastCall == calls[Len(calls)]

LastCallReturned == Len(calls) >= 1 /\ LastCall.out.err = "none"

\* C8, as the code has it: the result of every search that returns is a
\* candidate of maximum score among those not ignored, with that score and
\* the median and interquartile range of the scores of those candidates
C8_BestAndStatisticsOfScored ==
    LastCallReturned =>
        LET f == ScoresOn(NotIgnored(LastCall))
            o == LastCall.out
        IN  /\ o.shift \in DOMAIN f
            /\ o.score = f[o.shift]
            /\ \A c \in DOMAIN f : f[c] <= o.score
            /\ o.median = MedianOf(f)
            /\ o.iqr = IqrOf(f)

\* C8, as the claim has it: the median and the interquartile range are those
\* of the scores over the whole grid of the search
C8_StatisticsOverWholeGrid ==
    LastCallReturned =>
        LET f == ScoresOn(ProductOf(LastCall))
        IN  /\ LastCall.out.median = MedianOf(f)
            /\ LastCall.out.iqr = IqrOf(f)

\* a search with ignore_shifts that cut candidates of its grid away, several
\* distinct scores being left
C8_Witness ==
    /\ LastCallReturned
    /\ LastCall.ignore_shifts # None
    /\ NotIgnored(LastCall) # ProductOf(LastCall)
    /\ LastCall.out.iqr > 0
    /\ Cardinality(NotIgnored(LastCall)) % 2 = 0

(***************************************************************************)
(* C9.  compute_shift returns the min_score it was given, or, given None,  *)
(* median + min_score_auto_param * IQR of the scores of the coarse         *)
(* search; the widen decision and the refine decision both compare with    *)
(* that value.                                                             *)
(***************************************************************************)
ExpectedMinScore ==
    IF arg.min_score # None THEN arg.min_score[1]
    ELSE MedianOf(ScoresOn(CoarseGrid))
            + arg.min_score_auto_param * IqrOf(ScoresOn(CoarseGrid))

\* C9: the min_score returned is the one given, or median + parameter * IQR
\* of the coarse scores, and the searches made are those that this value
\* decides
C9_MinScoreReturnedAndUsed ==
    pc = "returned" =>
        /\ ret[3] = ExpectedMinScore
        /\ Performed("widened") <=> (calls[1].out.score < ExpectedMinScore /\ WidenAsked)
        /\ Performed("refined") <=> BeforeRefinement.score > ExpectedMinScore

\* no min_score given, a parameter other than 1, scores that spread, and
\* both decisions taken
C9_Witness ==
    /\ pc = "returned"
    /\ arg.min_score = None
    /\ arg.min_score_auto_param > 1
    /\ calls[1].out.iqr > 0
    /\ Performed("widened")
    /\ Performed("refined")

(***************************************************************************)
(* C10.  Called with an empty base or an empty target point cloud,         *)
(* get_best_shift and compute_shift fail with DegenerateInputError and     *)
(* return no shift.                                                        *)
(* Stated as the claim has it; the code does not satisfy it.               *)
(***************************************************************************)
EmptyCloud == Len(arg.yxz_base) = 0 \/ Len(arg.yxz_transform) = 0

\* C10: with an empty cloud the call raises DegenerateInputError in its
\* first search and returns nothing
C10_EmptyCloudDegenerateInputError ==
    (EmptyCloud /\ pc # "l150") =>
        /\ pc = "raised"
        /\ ret = << >>
        /\ calls[1].out.err = "DegenerateInputError"
        /\ err = "DegenerateInputError"

(***************************************************************************)
(* C11.  A candidate axis holding a single value never causes an error in  *)
(* get_best_shift or in any phase of compute_shift (coarse, widened with   *)
(* any widen parameter for that axis, refinement); the search collapses    *)
(* along that axis.                                                        *)
(* Stated as the claim has it; the code does not satisfy it.               *)
(***************************************************************************)
SingleValuedAxis ==
    Len(arg.y_shifts) = 1 \/ Len(arg.x_shifts) = 1 \/ Len(arg.z_shifts) = 1

\* C11: a call on two non-empty clouds with a single-valued axis raises no
\* exception, in no phase
C11_SingleValueAxisNoError ==
    (SingleValuedAxis /\ ~EmptyCloud) => pc # "raised"

(***************************************************************************)
(* C12.  The shift returned by compute_shift is the best shift found,      *)
(* rounded to the nearest integer on each axis, and the returned score is  *)
(* the score of that shift.                                                *)
(* Every candidate of the model is an integer vector, which rounding       *)
(* leaves as it is.                                                        *)
(* Stated as the claim has it; the code does not satisfy it.               *)
(***************************************************************************)
\* the candidates scored by the searches of the call, z in scaled units
AllScored ==
    UNION {calls[i].out.scored : i \in {j \in DOMAIN calls : calls[j].out.err = "none"}}

\* the returned shift as a candidate, z in scaled units
ReturnedCandidate == << ret[1][1], ret[1][2], ret[1][3] * arg.z_scale >>

\* C12: the returned shift is a candidate of the highest score among all the
\* candidates that the searches scored, and the returned score is its score
C12_ReturnsBestShiftFound ==
    pc = "returned" =>
        /\ ReturnedCandidate \in AllScored
        /\ ret[2] = ScoresOn(AllScored)[ReturnedCandidate]
        /\ \A c \in AllScored : ScoresOn(AllScored)[c] <= ret[2]

(***************************************************************************)
(* shift_score on its own, lines 7-17: one call on an array of distances   *)
(* and one on the same array with one distance made larger.  The distances *)
(* are whole pixels up to MaxDist, where the fixed point kernel orders the *)
(* scores as double precision does, and two distances beyond 77 pixels,    *)
(* where exp(-d^2/8) underflows to 0.0 in double precision as it rounds to *)
(* 0 here.                                                                 *)
(***************************************************************************)
FarDistances == {80, 100}

Distances == (0..MaxDist) \cup FarDistances

\* the arrays of 1 to MaxPts distances
DistanceArrays == UNION {[1..n -> Distances] : n \in 1..MaxPts}

\* distances ** 2
Squared(distances) == [i \in DOMAIN distances |-> distances[i] * distances[i]]

ScoreInit ==
    /\ \E ds \in DistanceArrays :
         \E k \in DOMAIN ds :
            \E d \in {e \in Distances : e > ds[k]} :
               arg = [distances |-> ds, further |-> [ds EXCEPT ![k] = d],
                      thresh |-> ScoreThresh]
    /\ pc = "l7"
    /\ ret = << >>
    /\ yxz_base = << >>
    /\ yxz_transform = << >>
    /\ y_shifts = << >>
    /\ x_shifts = << >>
    /\ z_shifts = << >>
    /\ initial_shifts = << >>
    /\ shift = << >>
    /\ score = 0
    /\ min_score = None
    /\ calls = << >>
    /\ err = "none"
    /\ locals = << >>

\* line 17, on the array and on the array with the larger distance
ScoreCall ==
    /\ pc = "l7"
    /\ ret' = << shift_score(Squared(arg.distances), arg.thresh),
                 shift_score(Squared(arg.further), arg.thresh) >>
    /\ pc' = "l17"
    /\ UNCHANGED <<locals, arg, yxz_base, yxz_transform, y_shifts, x_shifts, z_shifts,
                   initial_shifts, shift, score, min_score, calls, err>>

SpecScore == ScoreInit /\ [][ScoreCall]_vars

ScaledTrueShifts == {<< v[1], v[2], v[3] * arg.z_scale >> : v \in TrueShifts}

\* among the candidates of S, a higher score means a candidate closer to v
HigherIsCloser(S, v) ==
    LET f == ScoresOn(S)
    IN  \A c1 \in S, c2 \in S :
            f[c1] > f[c2] => Dist2(c1, v) < Dist2(c2, v)

\* C14, as the claim has it: for the candidates of every search that
\* returns, a higher score means a candidate closer to the true displacement
C14_HigherScoreIsCloser ==
    LastCallReturned =>
        \A v \in ScaledTrueShifts : HigherIsCloser(LastCall.out.scored, v)

\* C14, as the code has it: a higher score means a closer candidate when the
\* base is a single point; for every base, a scored true displacement has
\* the score of one exact match per base point, and the best score of the
\* search is that score
C14_TrueDisplacementScoresHighest ==
    LastCallReturned =>
        \A v \in ScaledTrueShifts :
            /\ Len(arg.yxz_base) = 1 => HigherIsCloser(LastCall.out.scored, v)
            /\ v \in LastCall.out.scored =>
                 /\ ScoresOn({v})[v] = Len(arg.yxz_base) * ScoreUnit * Kernel(0)
                 /\ LastCall.out.score = ScoresOn({v})[v]

\* a search on clouds of two points, a displaced target, the true
\* displacement among the candidates scored and not every score the same
C14_Witness ==
    /\ LastCallReturned
    /\ Len(arg.yxz_base) = 2
    /\ \E v \in ScaledTrueShifts :
         /\ v # << 0, 0, 0 >>
         /\ v \in LastCall.out.scored
         /\ \E c \in LastCall.out.scored : ScoresOn({c})[c] < LastCall.out.score

(***************************************************************************)
(* The variables of compute_shift, idle in the other specifications.       *)
(***************************************************************************)
shift_vars == <<yxz_base, yxz_transform, y_shifts, x_shifts, z_shifts,
                initial_shifts, shift, score, min_score, calls>>

NoShiftSearch ==
    /\ yxz_base = << >> /\ yxz_transform = << >>
    /\ y_shifts = << >> /\ x_shifts = << >> /\ z_shifts = << >>
    /\ initial_shifts = << >> /\ shift = << >> /\ score = 0
    /\ min_score = None /\ calls = << >>

(***************************************************************************)
(* ICPRefiner, one unit (tile, round, channel).  The code of the           *)
(* refinement is not among the files modelled above; run_icp is taken      *)
(* from the design of the component: its states, its iteration and its     *)
(* transitions.                                                            *)
(*                                                                         *)
(* A transform is a uniform scale (0 or 1) followed by an integer shift;   *)
(* scale 0 collapses every point onto one and is not invertible.  The      *)
(* least-squares fit is the transform of the family with the least sum of  *)
(* squared distances over the matched pairs, any of them when several      *)
(* have it.  Distances are squared; a tolerance is a fraction <<num, den>>.*)
(***************************************************************************)
Transform(scale, by) == [scale |-> scale, shift |-> by]

IdentityTransform == Transform(1, << 0, 0, 0 >>)

Invertible(T) == T.scale # 0

ApplyTransform(T, q) ==
    << T.scale * q[1] + T.shift[1], T.scale * q[2] + T.shift[2],
       T.scale * q[3] + T.shift[3] >>

\* the transforms of the model
Transforms ==
    {Transform(sc, by) : sc \in 0..1, by \in (-MaxV..MaxV) \X {0} \X (-1..1)}

\* the index of the nearest neighbour of q in target, the first of the nearest
NearestNeighbour(target, q) ==
    MinOf({j \in DOMAIN target :
              \A k \in DOMAIN target : Dist2(q, target[j]) <= Dist2(q, target[k])})

\* the pairs <<i, j>>: base point i, transformed by T, has its nearest
\* neighbour target[j] at a distance below the threshold
Matches(base, target, T, match_distance_threshold) ==
    IF Len(target) = 0 THEN {}
    ELSE {m \in {<< i, NearestNeighbour(target, ApplyTransform(T, base[i])) >>
                    : i \in DOMAIN base} :
             Dist2(ApplyTransform(T, base[m[1]]), target[m[2]])
                 < match_distance_threshold * match_distance_threshold}

\* the sum of the squared distances of the matched pairs under T
SquaredError(base, target, T, matches) ==
    SumSeq([i \in DOMAIN base |->
               IF \E m \in matches : m[1] = i
               THEN Dist2(ApplyTransform(T, base[i]),
                          target[(CHOOSE m \in matches : m[1] = i)[2]])
               ELSE 0])

\* the least-squares fits of the matched pairs
LeastSquaresFits(base, target, matches) ==
    {T \in Transforms :
        \A U \in Transforms :
            SquaredError(base, target, T, matches)
                <= SquaredError(base, target, U, matches)}

\* convergence declared without two iterations to compare: a faulty variant
\* that C15 tells from the design
Plateau_NoHistory(match_count, n_points, convergence_tolerance) == TRUE

\* the change of the match fraction has to be below the tolerance, not just
\* within it: a faulty variant that C17 tells from the design
Plateau_Strict(match_count, n_points, convergence_tolerance) ==
    /\ Len(match_count) >= 2
    /\ LET a == match_count[Len(match_count)]
           b == match_count[Len(match_count) - 1]
           change == IF a >= b THEN a - b ELSE b - a
       IN  change * convergence_tolerance[2] < convergence_tolerance[1] * n_points

\* the match fraction match_count / n_points of the last two iterations
\* differs by no more than the tolerance
Plateau(match_count, n_points, convergence_tolerance) ==
    /\ Len(match_count) >= 2
    /\ LET a == match_count[Len(match_count)]
           b == match_count[Len(match_count) - 1]
           change == IF a >= b THEN a - b ELSE b - a
       IN  change * convergence_tolerance[2] <= convergence_tolerance[1] * n_points

\* the transitions without the one to DIVERGED, so that a unit without a
\* match is iterated further: a faulty variant that C16 tells from the design
StateAfter_NoDivergence(match_count, T, n_points, iteration, max_iterations, convergence_tolerance) ==
    IF Plateau(match_count, n_points, convergence_tolerance) THEN "CONVERGED"
    ELSE IF iteration >= max_iterations THEN "MAX_ITERS_REACHED"
    ELSE "ITERATING"

\* the state after an iteration
StateAfter(match_count, T, n_points, iteration, max_iterations, convergence_tolerance) ==
    IF match_count[Len(match_count)] = 0 \/ ~Invertible(T) THEN "DIVERGED"
    ELSE IF Plateau(match_count, n_points, convergence_tolerance) THEN "CONVERGED"
    ELSE IF iteration >= max_iterations THEN "MAX_ITERS_REACHED"
    ELSE "ITERATING"

TerminalStates == {"CONVERGED", "MAX_ITERS_REACHED", "DIVERGED"}

\* run_icp(base_points, target_points, initial_transform,
\*         match_distance_threshold, max_iterations, convergence_tolerance)
ICPInit ==
    /\ \E b \in BaseClouds, T \in {IdentityTransform,
                                   Transform(1, << 1, 0, 0 >>),
                                   Transform(1, << -MaxV, 0, 0 >>)},
          thr \in {1, 2}, cap \in 1..MaxIters, tol \in {<< 0, 1 >>, << 1, 2 >>} :
         \E t \in {<< >>, Cloud(MaxPts)} \cup {Translate(b, v) : v \in Translations} :
            arg = [base_points |-> b, target_points |-> t, initial_transform |-> T,
                   match_distance_threshold |-> thr, max_iterations |-> cap,
                   convergence_tolerance |-> tol]
    /\ locals = [state |-> "INITIALIZED", transform |-> arg.initial_transform,
                 iteration |-> 0, match_count |-> << >>, mse |-> << >>,
                 transforms |-> << >>]
    /\ pc = "run_icp"
    /\ ret = << >>
    /\ err = "none"
    /\ NoShiftSearch

\* INITIALIZED -> ITERATING
ICPStart ==
    /\ pc = "run_icp"
    /\ locals.state = "INITIALIZED"
    /\ locals' = [locals EXCEPT !.state = "ITERATING"]
    /\ UNCHANGED <<pc, arg, ret, err, shift_vars>>

\* one iteration: match, re-estimate, record, count, and the transition
ICPIterate ==
    /\ pc = "run_icp"
    /\ locals.state = "ITERATING"
    /\ LET matches == Matches(arg.base_points, arg.target_points, locals.transform,
                              arg.match_distance_threshold)
           n == Cardinality(matches)
           sq == SquaredError(arg.base_points, arg.target_points, locals.transform,
                              matches)
           counts == Append(locals.match_count, n)
       IN  \E T \in (IF n = 0 THEN {locals.transform}
                     ELSE LeastSquaresFits(arg.base_points, arg.target_points, matches)) :
             locals' = [state |-> StateAfter(counts, T, Len(arg.base_points),
                                             locals.iteration + 1, arg.max_iterations,
                                             arg.convergence_tolerance),
                        transform |-> T,
                        iteration |-> locals.iteration + 1,
                        match_count |-> counts,
                        mse |-> Append(locals.mse, << sq, n >>),
                        transforms |-> Append(locals.transforms, T)]
    /\ UNCHANGED <<pc, arg, ret, err, shift_vars>>

\* the result: final transform, the two histories and the status
ICPReturn ==
    /\ pc = "run_icp"
    /\ locals.state \in TerminalStates
    /\ ret' = << locals.transform, locals.match_count, locals.mse, locals.state >>
    /\ pc' = "returned"
    /\ UNCHANGED <<locals, arg, err, shift_vars>>

ICPNext ==
    \/ ICPStart
    \/ ICPIterate
    \/ ICPReturn

SpecICP == ICPInit /\ [][ICPNext]_vars

(***************************************************************************)
(* C15.  Every ICP unit goes INITIALIZED -> ITERATING and then reaches     *)
(* exactly one terminal state among CONVERGED, MAX_ITERS_REACHED and       *)
(* DIVERGED after at most max_iterations iterations; CONVERGED is entered  *)
(* only when the match fraction has plateaued within tolerance across      *)
(* consecutive iterations, MAX_ITERS_REACHED only when the iteration cap   *)
(* is hit first, and a terminal state is never left.                       *)
(***************************************************************************)
\* the match counts recorded for the last two iterations differ, as
\* fractions of the base points, by no more than the tolerance
PlateauRecorded ==
    /\ locals.iteration >= 2
    /\ LET a == locals.match_count[locals.iteration]
           b == locals.match_count[locals.iteration - 1]
       IN  /\ (a - b) * arg.convergence_tolerance[2]
                 <= arg.convergence_tolerance[1] * Len(arg.base_points)
           /\ (b - a) * arg.convergence_tolerance[2]
                 <= arg.convergence_tolerance[1] * Len(arg.base_points)

ICPStateSound ==
    /\ locals.state \in {"INITIALIZED", "ITERATING"} \cup TerminalStates
    /\ locals.iteration <= arg.max_iterations
    /\ Len(locals.match_count) = locals.iteration
    /\ locals.state = "INITIALIZED" => locals.iteration = 0
    /\ locals.state = "ITERATING" => locals.iteration < arg.max_iterations
    /\ locals.state \in TerminalStates => locals.iteration >= 1
    /\ locals.state = "CONVERGED" => PlateauRecorded
    /\ locals.state = "MAX_ITERS_REACHED" =>
          (locals.iteration = arg.max_iterations /\ ~PlateauRecorded)

ICPStepSound ==
    /\ locals.state = "INITIALIZED" => locals'.state \in {"INITIALIZED", "ITERATING"}
    /\ locals.state \in TerminalStates => locals' = locals
    /\ locals'.iteration \in {locals.iteration, locals.iteration + 1}

\* C15: the states follow one another as claimed, a unit that has made
\* max_iterations iterations is in a terminal state, and a terminal state is
\* kept
C15_ReachesOneTerminalState ==
    /\ []ICPStateSound
    /\ [][ICPStepSound]_vars

\* a unit that has converged before the cap
C15_Witness ==
    /\ pc = "returned"
    /\ locals.state = "CONVERGED"
    /\ locals.iteration < arg.max_iterations

(***************************************************************************)
(* C16.  run_icp on a base cloud and an empty target cloud reaches         *)
(* DIVERGED within one iteration; a unit enters DIVERGED as soon as an     *)
(* iteration records match_count = 0 or a re-estimated transform that is   *)
(* not invertible, and is reported as failed rather than iterated further. *)
(***************************************************************************)
\* the iterations that recorded no match or a transform that is not invertible
FailedIterations ==
    {k \in 1..locals.iteration :
        locals.match_count[k] = 0 \/ ~Invertible(locals.transforms[k])}

\* C16: an empty target ends in DIVERGED at the first iteration, and an
\* iteration without a match or with a transform that is not invertible is
\* the last one, in DIVERGED, which is the status returned
C16_DivergesAtOnce ==
    /\ (Len(arg.target_points) = 0 /\ locals.iteration >= 1) =>
          (locals.iteration = 1 /\ locals.state = "DIVERGED")
    /\ \A k \in FailedIterations :
          k = locals.iteration /\ locals.state = "DIVERGED"
    /\ locals.state = "DIVERGED" => FailedIterations # {}
    /\ (pc = "returned" /\ FailedIterations # {}) => ret[4] = "DIVERGED"

\* a base cloud with points and an empty target, reported as DIVERGED
C16_Witness ==
    /\ pc = "returned"
    /\ Len(arg.base_points) > 0
    /\ Len(arg.target_points) = 0
    /\ ret[4] = "DIVERGED"

(***************************************************************************)
(* C17.  run_icp on two identical point clouds started from the identity   *)
(* transform reaches CONVERGED (not MAX_ITERS_REACHED or DIVERGED) within  *)
(* max_iterations, with a final transform equal to the identity and        *)
(* match_count equal to the number of points at convergence.               *)
(* This fails for empty clouds (no match: DIVERGED), for a cap of one      *)
(* iteration (no two iterations to compare) and for a cloud of a single    *)
(* point (a fit that is not invertible matches it as well as the           *)
(* identity).                                                              *)
(***************************************************************************)
IdenticalClouds ==
    /\ arg.base_points = arg.target_points
    /\ arg.initial_transform = IdentityTransform

ConvergedOnIdentity ==
    /\ locals.state = "CONVERGED"
    /\ locals.transform = IdentityTransform
    /\ locals.match_count[locals.iteration] = Len(arg.base_points)

TilePositions(n) == [t \in 1..n |-> << (t - 1) \div 2, (t - 1) % 2 >>]

\* a plane <<c0, cy, cx>> at a grid position: tilepos_yx_pad @ transform.T
PredictAt(plane, pos) == << 0, plane[1] + plane[2] * pos[1] + plane[3] * pos[2], 0 >>

\* the planes of the fit: a constant term within the range of the shifts
\* the model draws, and a slope along the rows and along the columns
PlaneMax == MaxShift + 2

Planes == (0..PlaneMax) \X (-MaxShift..MaxShift) \X (-MaxShift..MaxShift)

\* twice the Huber loss of a residual r, for the threshold 1 between its
\* quadratic and its linear part
HuberLoss(r) ==
    LET a == IF r >= 0 THEN r ELSE -r
    IN  IF a <= 1 THEN a * a ELSE 2 * a - 1

\* the squared norm of the difference of two shifts
Norm2(u, v) == Dist2(u, v)

HuberTotal(plane, shifts, positions) ==
    SumSeq([t \in DOMAIN shifts |->
               HuberLoss(PredictAt(plane, positions[t])[2] - shifts[t][2])])

\* huber_regression(shift, position): the planes of least total Huber loss;
\* the numbers of rows of its two arguments must agree
huber_regression(shifts, positions) ==
    IF Len(shifts) # Len(positions) THEN {Raise("ValueError")}
    ELSE UNION {{Value(plane) : plane \in
                    {q \in Planes : HuberTotal(q, shifts, positions) = least}} :
                least \in {MinOf({HuberTotal(u, shifts, positions) : u \in Planes})}}

(***************************************************************************)
(* shift_vector_field: for each round (or channel) it regresses the shifts *)
(* of the tiles on their grid positions and marks the tiles whose shift    *)
(* lies far from the prediction.  arg.shift[t][e] is the shift of tile t   *)
(* in round e (shift[use_tiles, :, :, 3]); use_tiles is every tile.        *)
(* Indices start at 1 here and at 0 in the code.                           *)
(***************************************************************************)
\* a numpy value with its number of dimensions
NdScalar(v) == [ndim |-> 0, val |-> v]

NdArray(q) == [ndim |-> 1, val |-> q]

\* np.linalg.norm(a) of an [n x 3] array a, no axis given: one number for
\* the whole array (its square here, to stay in the integers)
linalg_norm(a, b) == NdScalar(SumSeq([t \in DOMAIN a |-> Norm2(a[t], b[t])]))

\* make_residual_plot(residual, nbp_basic): residual[t] is read for each
\* tile in use, so residual has to be an array; the value at tile t is put
\* at [column, row] of an image of n_rows x n_cols, which is then
\* transposed and flipped
make_residual_plot(residual, tilepos) ==
    LET n_rows == MaxOf({tilepos[t][1] : t \in DOMAIN tilepos}) + 1
        n_cols == MaxOf({tilepos[t][2] : t \in DOMAIN tilepos}) + 1
        diff == [px \in (0..(n_rows - 1)) \X (0..(n_cols - 1)) |->
                    IF \E t \in DOMAIN tilepos : << tilepos[t][2], tilepos[t][1] >> = px
                    THEN residual.val[CHOOSE t \in DOMAIN tilepos :
                                         << tilepos[t][2], tilepos[t][1] >> = px]
                    ELSE 0]
    IN  IF residual.ndim = 0 THEN Raise("IndexError")                  \* line 763
        ELSE IF \E t \in DOMAIN tilepos :
                    tilepos[t][2] >= n_rows \/ tilepos[t][1] >= n_cols
             THEN Raise("IndexError")
        ELSE Value([px \in (0..(n_cols - 1)) \X (0..(n_rows - 1)) |->
                       diff[<< n_rows - 1 - px[2], px[1] >>]])          \* line 765

\* the outcome of the drawing calls of lines 645-665, which are made on
\* objects of the plotting library: the model leaves open whether they raise
DrawOutcomes == {"none", "AttributeError"}

VectorFieldShifts ==
    UNION {[1..n_t -> [1..n_rc -> {<< 0, a, 0 >> : a \in 0..MaxShift}]] :
              n_t \in 1..MaxTiles, n_rc \in 1..2}

VectorFieldInit ==
    /\ \E sh \in VectorFieldShifts, thr \in 0..1 :
          arg = [shift |-> sh, tilepos_yx |-> TilePositions(Len(sh)),
                 residual_thresh |-> thr]
    /\ locals = [elem |-> 1, predicted_shift |-> << >>, outlier |-> {}]
    /\ pc = "l642"
    /\ ret = << >>
    /\ err = "none"
    /\ NoShiftSearch

\* lines 642-643
VectorFieldRegress ==
    /\ pc = "l642"
    /\ IF locals.elem > Len(arg.shift)
       THEN /\ Raised("IndexError")
            /\ UNCHANGED locals
       ELSE \E o \in huber_regression(arg.shift[locals.elem], arg.tilepos_yx) :
               IF o.err # "none"
               THEN /\ Raised(o.err)
                    /\ UNCHANGED locals
               ELSE /\ locals' = [locals EXCEPT !.predicted_shift =
                                     [t \in DOMAIN arg.shift |->
                                         PredictAt(o.val, arg.tilepos_yx[t])]]
                    /\ pc' = "l645"
                    /\ UNCHANGED err
    /\ UNCHANGED <<arg, ret, shift_vars>>

\* lines 645-665
VectorFieldDraw ==
    /\ pc = "l645"
    /\ \E o \in DrawOutcomes :
          IF o # "none"
          THEN Raised(o)
          ELSE /\ pc' = "l669"
               /\ UNCHANGED err
    /\ UNCHANGED <<locals, arg, ret, shift_vars>>

\* lines 669-670; the marking of the outliers at line 671 follows them
VectorFieldResidual ==
    /\ pc = "l669"
    /\ LET residual == linalg_norm(locals.predicted_shift,
                                   [t \in DOMAIN arg.shift |-> arg.shift[t][locals.elem]])
           o == make_residual_plot(residual, arg.tilepos_yx)
       IN  IF o.err # "none"
           THEN /\ Raised(o.err)
                /\ UNCHANGED locals
           ELSE /\ locals' = [locals EXCEPT !.outlier =
                                 {px \in DOMAIN o.val :
                                     o.val[px] > arg.residual_thresh * arg.residual_thresh}]
                /\ pc' = "l672"
                /\ UNCHANGED err
    /\ UNCHANGED <<arg, ret, shift_vars>>

VectorFieldNext ==
    \/ VectorFieldRegress
    \/ VectorFieldDraw
    \/ VectorFieldResidual

SpecVectorField == VectorFieldInit /\ [][VectorFieldNext]_vars

\* the tiles whose own residual, the norm of the difference between the
\* predicted and the observed shift of the tile, is above the threshold
TilesAboveThreshold ==
    {t \in DOMAIN arg.shift :
        Norm2(locals.predicted_shift[t], arg.shift[t][locals.elem])
            > arg.residual_thresh * arg.residual_thresh}

\* C18: once the regression of a round is made and its residuals are looked
\* at, the tiles marked as outliers are exactly those whose own residual
\* norm is above residual_threshold (none when every tile lies on the plane)
C18_FlaggedIffResidualAbove ==
    pc \notin {"l642", "l645", "l669"} =>
        /\ err = "none"
        /\ {<< arg.tilepos_yx[t][2], arg.tilepos_yx[t][1] >> : t \in TilesAboveThreshold}
               = locals.outlier

\* C18: the residuals of two tiles that both lie on the fitted plane were
\* looked at
C18_ResidualsLookedAt ==
    /\ pc = "raised" /\ err = "IndexError"
    /\ Len(arg.shift) = 2
    /\ locals.predicted_shift # << >>
    /\ \A t \in DOMAIN arg.shift : locals.predicted_shift[t] = arg.shift[t][locals.elem]

(***************************************************************************)
(* OutlierCorrector.  correct_outliers is not among the files modelled     *)
(* above (zyx_shift_image only draws the transforms before and after it);  *)
(* it is taken from the design of the component: a Huber regression of the *)
(* transforms of all tiles on their grid position, a flag for each tile    *)
(* whose residual is above residual_threshold, and the prediction of the   *)
(* regression as the corrected transform of every tile.  One parameter of  *)
(* the transform (the y shift) is followed; the others are treated alike.  *)
(***************************************************************************)
\* the corrected transforms of a faulty variant that replaces the flagged
\* tiles only, which C19 tells from the design
CorrectedTransforms_OutliersOnly(predicted, raw, flags) ==
    [t \in DOMAIN raw |-> IF flags[t] THEN predicted[t] ELSE raw[t]]

CorrectedTransforms(predicted, raw, flags) == predicted

OutlierFlags(predicted, raw, residual_threshold) ==
    [t \in DOMAIN raw |->
        Norm2(predicted[t], raw[t]) > residual_threshold * residual_threshold]

TileTransforms ==
    UNION {[1..n -> {<< 0, a, 0 >> : a \in 0..(MaxShift + 2)}] : n \in 1..(MaxTiles + 1)}

OutlierInit ==
    /\ \E tr \in TileTransforms, thr \in 0..1 :
          arg = [all_tile_transforms |-> tr,
                 tile_grid_positions |-> TilePositions(Len(tr)),
                 residual_threshold |-> thr]
    /\ locals = [fit |-> << >>]
    /\ pc = "correct_outliers"
    /\ ret = << >>
    /\ err = "none"
    /\ NoShiftSearch

correct_outliers ==
    /\ pc = "correct_outliers"
    /\ \E o \in huber_regression(arg.all_tile_transforms, arg.tile_grid_positions) :
          LET predicted == [t \in DOMAIN arg.all_tile_transforms |->
                               PredictAt(o.val, arg.tile_grid_positions[t])]
              flags == OutlierFlags(predicted, arg.all_tile_transforms,
                                    arg.residual_threshold)
          IN  /\ locals' = [locals EXCEPT !.fit = o.val]
              /\ ret' = << CorrectedTransforms(predicted, arg.all_tile_transforms, flags),
                           flags >>
              /\ pc' = "returned"
    /\ UNCHANGED <<arg, err, shift_vars>>

SpecOutlier == OutlierInit /\ [][correct_outliers]_vars

\* C19: what correct_outliers returns as the corrected transform of a tile
\* is the prediction of the regression at the tile's grid position, for
\* every tile, flagged or not: the raw estimate is never kept because the
\* tile is not an outlier
C19_EveryTileGetsPrediction ==
    pc = "returned" =>
        \A t \in DOMAIN arg.all_tile_transforms :
            ret[1][t] = PredictAt(locals.fit, arg.tile_grid_positions[t])

\* C19: correct_outliers returned with a flagged tile and with a tile that
\* is not flagged and whose raw estimate differs from the prediction
C19_Witness ==
    /\ pc = "returned"
    /\ \E t \in DOMAIN ret[2] : ret[2][t]
    /\ \E t \in DOMAIN ret[2] :
          /\ ~ret[2][t]
          /\ arg.all_tile_transforms[t]
                 # PredictAt(locals.fit, arg.tile_grid_positions[t])

(***************************************************************************)
(* get_spot_intensity.  call_spots/__init__.py imports it and              *)
(* test_get_spot_intensity calls it, but its module is not among the files *)
(* modelled above: it is taken as the median over the rounds of the        *)
(* largest absolute colour over the channels.  spot_colors[s][r][c] is the *)
(* colour of spot s in round r and channel c, in units of 1/ColourUnit so  *)
(* that the mean of two colours is a whole number of units.                *)
(***************************************************************************)
ColourUnit == 2

Colours == {ColourUnit * v : v \in -MaxColour..MaxColour}

AbsOf(v) == IF v >= 0 THEN v ELSE -v

\* np.max(np.abs(colours), axis = channel) of one round
MaxAbsOverChannels(round) == MaxOf({AbsOf(round[c]) : c \in DOMAIN round})

\* np.median of a vector: the middle value, or the mean of the two middle
\* values
np_median(values) ==
    LET sorted == SortSeq(values, LAMBDA a, b : a < b)
        n == Len(sorted)
    IN  (sorted[(n + 1) \div 2] + sorted[(n \div 2) + 1]) \div 2

\* the largest colour of a round with its sign kept: a faulty variant that
\* C20 tells from the function
get_spot_intensity_Signed(spot_colors) ==
    [s \in DOMAIN spot_colors |->
        np_median([r \in DOMAIN spot_colors[s] |->
                      MaxOf({spot_colors[s][r][c] : c \in DOMAIN spot_colors[s][r]})])]

get_spot_intensity(spot_colors) ==
    [s \in DOMAIN spot_colors |->
        np_median([r \in DOMAIN spot_colors[s] |-> MaxAbsOverChannels(spot_colors[s][r])])]

\* the array of test_get_spot_intensity: 2 spots, 3 rounds, 4 channels
TestSpotColors ==
    << << << 1 * ColourUnit, 0, 0, 0 >>, << 0, 0, 0, 0 >>, << 0, 0, 0, 0 >> >>,
       << << 0, 0, 0, 2 * ColourUnit >>, << 0, 0, 0, 2 * ColourUnit >>, << 0, 0, 0, 0 >> >> >>

\* one spot of two channels and up to three rounds, two spots of one round,
\* and the array of the test
SpotColorArrays ==
    LET rounds == [1..2 -> Colours]
    IN  {<< spot >> : spot \in UNION {[1..n_rounds -> rounds] : n_rounds \in 1..3}}
            \cup {<< << r1 >>, << r2 >> >> : r1 \in rounds, r2 \in rounds}
            \cup {TestSpotColors}

IntensityInit ==
    /\ \E a \in SpotColorArrays : arg = [spot_colors |-> a]
    /\ locals = << >>
    /\ pc = "get_spot_intensity"
    /\ ret = << >>
    /\ err = "none"
    /\ NoShiftSearch

IntensityCall ==
    /\ pc = "get_spot_intensity"
    /\ ret' = get_spot_intensity(arg.spot_colors)
    /\ pc' = "returned"
    /\ UNCHANGED <<locals, arg, err, shift_vars>>

SpecIntensity == IntensityInit /\ [][IntensityCall]_vars

\* the largest absolute colour of spot s in round r, found by comparison
RoundPeak(s, r) ==
    CHOOSE v \in {AbsOf(c) : c \in Colours} \cup {0, ColourUnit, 2 * ColourUnit} :
        /\ \E c \in DOMAIN arg.spot_colors[s][r] :
              arg.spot_colors[s][r][c] = v \/ arg.spot_colors[s][r][c] = -v
        /\ \A c \in DOMAIN arg.spot_colors[s][r] :
              arg.spot_colors[s][r][c] <= v /\ -arg.spot_colors[s][r][c] <= v

\* the k-th smallest of the round peaks of spot s, found by counting
PeakOfRank(s, k) ==
    LET rounds == DOMAIN arg.spot_colors[s]
    IN  CHOOSE v \in {RoundPeak(s, r) : r \in rounds} :
            /\ Cardinality({r \in rounds : RoundPeak(s, r) < v}) < k
            /\ Cardinality({r \in rounds : RoundPeak(s, r) <= v}) >= k

C21_EverySearchScoresACandidate ==
    ~EmptyCloud =>
        /\ pc # "raised"
        /\ \A i \in DOMAIN calls :
              calls[i].out.err = "none" /\ calls[i].out.scored # {}

(***************************************************************************)
(* C22.  When the widened search is made, the shift and the score carried  *)
(* forward are those of the candidate of the highest score among the       *)
(* coarse and the widened candidates together.                             *)
(* Stated as the claim has it; the code does not satisfy it.               *)
(***************************************************************************)
\* the widened search returned and line 165 is reached
WidenedDone ==
    /\ pc = "l165"
    /\ Performed("widened")
    /\ TheCall("widened").out.err = "none"

CoarseAndWidened == calls[1].out.scored \cup TheCall("widened").out.scored

\* C22: after the widened search the current shift is a candidate of the
\* highest score of the coarse and widened candidates, and the current
\* score is its score, so it is not below the coarse best score
C22_WidenedKeepsTheBetter ==
    WidenedDone =>
        /\ shift \in CoarseAndWidened
        /\ score = ScoresOn(CoarseAndWidened)[shift]
        /\ \A c \in CoarseAndWidened : ScoresOn(CoarseAndWidened)[c] <= score
        /\ score >= calls[1].out.score

(***************************************************************************)
(* C23.  Whenever the refinement runs, the shift that the final search     *)
(* selects is not in the coarse grid: the coarse grid is excluded from     *)
(* both refinement searches, and the result of the final search is taken   *)
(* whatever its score.                                                     *)
(***************************************************************************)
\* the shift of a search with z in unscaled units, as line 180 leaves it
Unscaled(s) == << s[1], s[2], s[3] \div arg.z_scale >>

CallAgain ==
    /\ pc = "returned"
    /\ locals = << >>
    /\ locals' = [ret |-> ret, calls |-> calls]
    /\ pc' = "l150"
    /\ y_shifts' = arg.y_shifts
    /\ x_shifts' = arg.x_shifts
    /\ z_shifts' = arg.z_shifts
    /\ initial_shifts' = << >>
    /\ shift' = << >>
    /\ score' = 0
    /\ min_score' = arg.min_score
    /\ calls' = << >>
    /\ ret' = << >>
    /\ UNCHANGED <<arg, yxz_base, yxz_transform, err>>

NextTwice ==
    \/ Next
    \/ CallAgain

SpecTwice == Init /\ [][NextTwice]_vars

(***************************************************************************)
(* C24.  Two successive calls on the same arrays with the same parameters  *)
(* return the same (shift, score, min_score), for every z_scale.           *)
(* Where several candidates of a search have the best score, the row order *)
(* of setdiff2d decides between them, which the model leaves open: the     *)
(* property is stated for the calls whose searches have a single best      *)
(* candidate each.                                                         *)
(* Stated as the claim has it; the code does not satisfy it.               *)
(***************************************************************************)
\* a search that returned had one candidate of the best score, on the
\* arrays base and transform
SingleBest(c, base, transform) ==
    c.out.err = "none" =>
        Cardinality({s \in c.out.scored :
                        ShiftScoreOf(base, transform, arg.shift_score_thresh, s)
                            = c.out.score}) = 1

SecondCallFinished == locals # << >> /\ Finished

NoTies ==
    /\ \A i \in DOMAIN locals.calls :
          SingleBest(locals.calls[i], ScaleZ(arg.yxz_base, arg.z_scale),
                     ScaleZ(arg.yxz_transform, arg.z_scale))
    /\ \A i \in DOMAIN calls : SingleBest(calls[i], yxz_base, yxz_transform)

\* C24: the second call returns, and returns what the first call returned
C24_SecondCallReturnsTheSame ==
    (SecondCallFinished /\ NoTies) =>
        /\ pc = "returned"
        /\ ret = locals.ret

(***************************************************************************)
(* extend_array on its own, lines 20-47: one call on an array, a number of *)
(* values to add and a direction.  The arrays are integer arrays, for      *)
(* which the arithmetic of the code is exact, and float arrays of two      *)
(* values 0.0 and step/10, held in tenths.  For the float arrays the       *)
(* number of values of numpy.arange, ceil((stop - start) / step), is       *)
(* tabulated as double precision gives it: rows <<step in tenths,          *)
(* extend_scale, length of ext_below, length of ext_above>>.               *)
(***************************************************************************)
DoubleArangeLengths ==
    { << 1, 1, 1, 1 >>, << 1, 2, 2, 2 >>, << 1, 3, 4, 3 >>, << 1, 4, 4, 4 >>,
      << 1, 5, 5, 5 >>,
      << 2, 1, 1, 1 >>, << 2, 2, 2, 2 >>, << 2, 3, 4, 3 >>, << 2, 4, 4, 4 >>,
      << 2, 5, 5, 5 >>,
      << 3, 1, 1, 1 >>, << 3, 2, 2, 2 >>, << 3, 3, 3, 3 >>, << 3, 4, 4, 4 >>,
      << 3, 5, 5, 5 >> }

\* extend_array on a float array <<0, step>> of tenths; the values are
\* given to the nearest tenth
extend_array_float(array, extend_scale, direction) ==
    IF extend_scale = 0 THEN Value(array)
    ELSE IF Len(array) = 1 THEN Raise("ValueError")
    ELSE LET step == MeanSpacing(array)
             lengths == CHOOSE r \in DoubleArangeLengths :
                            r[1] = step /\ r[2] = extend_scale
             amin == MinOf(Range(array))
             amax == MaxOf(Range(array))
             ext_below == [i \in 1..lengths[3] |->
                              amin - extend_scale * step + (i - 1) * step]
             ext_above == [i \in 1..lengths[4] |-> amax + step + (i - 1) * step]
         IN  IF direction = "below" THEN Value(ext_below \o array)
             ELSE IF direction = "above" THEN Value(array \o ext_above)
             ELSE IF direction = "both" THEN Value(ext_below \o array \o ext_above)
             ELSE Raise("ValueError")

\* the arrays of the calls: dtype "int" or "float" (in tenths)
ExtendArrays ==
    {[dtype |-> "int", vals |-> [i \in 1..n |-> lo + (i - 1) * step]] :
        lo \in {-1, 0}, step \in 1..2, n \in 1..3}
    \cup {[dtype |-> "float", vals |-> << 0, step >>] : step \in 1..3}

\* the three directions of the docstring and one that is none of them
Directions == {"below", "above", "both", "sideways"}

ExtendInit ==
    /\ \E a \in ExtendArrays, k \in 0..MaxExtend, d \in Directions :
          arg = [array |-> a, extend_scale |-> k, direction |-> d]
    /\ locals = << >>
    /\ pc = "l33"
    /\ ret = << >>
    /\ err = "none"
    /\ NoShiftSearch

ExtendCall ==
    /\ pc = "l33"
    /\ LET o == IF arg.array.dtype = "int"
                THEN extend_array(arg.array.vals, arg.extend_scale, arg.direction)
                ELSE extend_array_float(arg.array.vals, arg.extend_scale, arg.direction)
       IN  IF o.err # "none"
           THEN /\ Raised(o.err)
                /\ UNCHANGED ret
           ELSE /\ ret' = o.val
                /\ pc' = "l47"
                /\ UNCHANGED err
    /\ UNCHANGED <<locals, arg, shift_vars>>

SpecExtend == ExtendInit /\ [][ExtendCall]_vars

(***************************************************************************)
(* C25.  extend_array(array, k, direction) on an ascending array of        *)
(* constant step with at least two values returns an ascending array of    *)
(* the same step that contains the input as a run, with exactly k more     *)
(* values below it ("below"), above it ("above") or on each side ("both"); *)
(* with k = 0 it returns the input.                                        *)
(* Stated as the claim has it; the code does not satisfy it.               *)
(***************************************************************************)
ValidDirection == arg.direction \in {"below", "above", "both"}

ExtendCalled == pc # "l33"

\* C25: the call returns the array that starts k steps (or none) below the
\* input and goes on at the step of the input for k more values per side
C25_ExtendsByKValuesPerSide ==
    (ExtendCalled /\ ValidDirection /\ Len(arg.array.vals) >= 2) =>
        LET a == arg.array.vals
            step == a[2] - a[1]
            below == IF arg.direction \in {"below", "both"} THEN arg.extend_scale ELSE 0
            above == IF arg.direction \in {"above", "both"} THEN arg.extend_scale ELSE 0
        IN  /\ pc = "l47"
            /\ Len(ret) = Len(a) + below + above
            /\ \A i \in DOMAIN ret : ret[i] = a[1] + (i - 1 - below) * step

(***************************************************************************)
(* C26.  extend_array raises ValueError for every direction other than     *)
(* "below", "above" and "both", whatever extend_scale is.                  *)
(* Stated as the claim has it; the code does not satisfy it.               *)
(***************************************************************************)
\* C26: a call with another direction raises ValueError
C26_OtherDirectionRaises ==
    (ExtendCalled /\ ~ValidDirection) => (pc = "raised" /\ err = "ValueError")

(***************************************************************************)
(* refined_shifts on its own, lines 50-71: one call on an integer array of *)
(* constant step, one of its values as best_shift, a refined_scale (the    *)
(* default 0.5, the 1e-50 of the final search, or 1) and an extend_scale.  *)
(***************************************************************************)
RefineArrays ==
    {[i \in 1..n |-> (i - 1) * step] : step \in 1..MaxStep, n \in 1..3}

RefinedScales == {<< 1, 2 >>, TinyScale, << 1, 1 >>}

RefineInit ==
    /\ \E a \in RefineArrays, sc \in RefinedScales, e \in 1..2 :
         \E b \in Range(a) :
            arg = [shifts |-> a, best_shift |-> b, refined_scale |-> sc,
                   extend_scale |-> e]
    /\ locals = << >>
    /\ pc = "l64"
    /\ ret = << >>
    /\ err = "none"
    /\ NoShiftSearch

RefineCall ==
    /\ pc = "l64"
    /\ ret' = refined_shifts(arg.shifts, arg.best_shift, arg.refined_scale[1],
                             arg.refined_scale[2], arg.extend_scale)
    /\ pc' = "l71"
    /\ UNCHANGED <<locals, arg, err, shift_vars>>

SpecRefine == RefineInit /\ [][RefineCall]_vars

\* the ends of the window that the docstring describes
WindowLow == arg.best_shift - arg.extend_scale * MeanSpacing(arg.shifts)

WindowHigh == arg.best_shift + arg.extend_scale * MeanSpacing(arg.shifts)

(***************************************************************************)
(* C27.  refined_shifts on an array of mean spacing step returns an array  *)
(* that covers from best_shift - extend_scale * step to                    *)
(* best_shift + extend_scale * step at a constant integer spacing, which   *)
(* is step * refined_scale rounded up; an array of a single value is       *)
(* returned as it is.                                                      *)
(* Stated as the claim has it; the code does not satisfy it.               *)
(***************************************************************************)
\* C27: the result starts at the low end of the window, reaches its high
\* end, and has the spacing ceil(step * refined_scale) throughout
C27_CoversTheWindow ==
    pc = "l71" =>
        IF Len(arg.shifts) = 1 THEN ret = arg.shifts
        ELSE LET spacing == CeilDiv(arg.refined_scale[1] * MeanSpacing(arg.shifts),
                                    arg.refined_scale[2])
             IN  /\ Len(ret) >= 1
                 /\ ret[1] = WindowLow
                 /\ ret[Len(ret)] >= WindowHigh
                 /\ \A i \in 1..(Len(ret) - 1) : ret[i + 1] - ret[i] = spacing

(***************************************************************************)
(* C28.  For an integer-step array of more than one value, the array that  *)
(* refined_shifts returns contains best_shift and no value outside the     *)
(* window from best_shift - extend_scale * step to                         *)
(* best_shift + extend_scale * step.                                       *)
(* Stated as the claim has it; the code does not satisfy it.               *)
(***************************************************************************)
\* C28: best_shift is among the returned values, all of which lie in the
\* window
C28_BestShiftInsideWindow ==
    (pc = "l71" /\ Len(arg.shifts) > 1) =>
        /\ arg.best_shift \in Range(ret)
        /\ \A v \in Range(ret) : WindowLow <= v /\ v <= WindowHigh

(***************************************************************************)
(* RegistrationViewer: the two buttons of ButtonMethodWindow that switch   *)
(* between the SVR and the ICP transforms, and the tile buttons, which     *)
(* redraw as well.  locals is the viewer: method_buttons.method, the       *)
(* checked state of button_svr and button_icp, self.transform (as the name *)
(* of the notebook variable it was read from), self.tile, the transform    *)
(* that the images on display were made with, and the number of calls of   *)
(* update_plot.                                                            *)
(***************************************************************************)
\* ButtonMethodWindow.__init__, lines 297-314
ButtonMethodWindow(active_button) ==
    IF active_button = "ICP"
    THEN Value([button_svr |-> FALSE, button_icp |-> TRUE, method |-> "ICP"])
    ELSE IF active_button = "SVR"
    THEN Value([button_svr |-> TRUE, button_icp |-> FALSE, method |-> "SVR"])
    ELSE Raise("ValueError")

\* lines 212-217: the images are made again with self.transform
update_plot(v) == [v EXCEPT !.displayed = v.transform, !.draws = @ + 1]

\* a click on a checkable QPushButton toggles it before its slot is called
Toggled(v, button) == [v EXCEPT ![button] = ~@]

\* lines 145-158
button_svr_clicked(v) ==
    IF v.method = "SVR"
    THEN [v EXCEPT !.button_svr = TRUE, !.button_icp = FALSE]
    ELSE update_plot([v EXCEPT !.button_svr = TRUE, !.button_icp = FALSE,
                               !.method = "SVR", !.transform = "start_transform"])

\* lines 160-173 without the assignment of self.transform: a faulty variant
\* that C29 tells from the code
button_icp_clicked_SameTransform(v) ==
    IF v.method = "ICP"
    THEN [v EXCEPT !.button_icp = TRUE, !.button_svr = FALSE]
    ELSE update_plot([v EXCEPT !.button_icp = TRUE, !.button_svr = FALSE,
                               !.method = "ICP"])

\* lines 160-173
button_icp_clicked(v) ==
    IF v.method = "ICP"
    THEN [v EXCEPT !.button_icp = TRUE, !.button_svr = FALSE]
    ELSE update_plot([v EXCEPT !.button_icp = TRUE, !.button_svr = FALSE,
                               !.method = "ICP", !.transform = "transform"])

\* lines 187-195
tile_button_clicked(v, t) == update_plot([v EXCEPT !.tile = t])

\* RegistrationViewer.__init__(nb, t), lines 23-129, for a tile t in use
ViewerInit ==
    /\ \E t \in 1..MaxTiles : arg = [use_tiles |-> 1..MaxTiles, t |-> t]
    /\ LET b == ButtonMethodWindow("SVR").val
       IN  locals = [method |-> b.method, button_svr |-> b.button_svr,
                     button_icp |-> b.button_icp, transform |-> "start_transform",
                     tile |-> arg.t, displayed |-> "start_transform", draws |-> 0,
                     clicks |-> 0]
    /\ pc = "napari.run"
    /\ ret = << >>
    /\ err = "none"
    /\ NoShiftSearch

ClickSVR ==
    /\ pc = "napari.run"
    /\ locals.clicks < MaxClicks
    /\ locals' = [button_svr_clicked(Toggled(locals, "button_svr")) EXCEPT !.clicks = @ + 1]
    /\ UNCHANGED <<pc, arg, ret, err, shift_vars>>

ClickICP ==
    /\ pc = "napari.run"
    /\ locals.clicks < MaxClicks
    /\ locals' = [button_icp_clicked(Toggled(locals, "button_icp")) EXCEPT !.clicks = @ + 1]
    /\ UNCHANGED <<pc, arg, ret, err, shift_vars>>

ClickTile ==
    /\ pc = "napari.run"
    /\ locals.clicks < MaxClicks
    /\ \E t \in arg.use_tiles :
          locals' = [tile_button_clicked(locals, t) EXCEPT !.clicks = @ + 1]
    /\ UNCHANGED <<pc, arg, ret, err, shift_vars>>

ViewerNext ==
    \/ ClickSVR
    \/ ClickICP
    \/ ClickTile

SpecViewer == ViewerInit /\ [][ViewerNext]_vars

(***************************************************************************)
(* C29.  After any sequence of clicks on the SVR and ICP buttons exactly   *)
(* one of the two is checked, the one that method_buttons.method names,    *)
(* and the transforms on display are start_transform for "SVR" and the ICP *)
(* transform for "ICP"; a click on the button of the active method changes *)
(* neither the method nor the transform and does not redraw.               *)
(***************************************************************************)
MethodButtonsAgree ==
    /\ locals.method \in {"SVR", "ICP"}
    /\ locals.button_svr = (locals.method = "SVR")
    /\ locals.button_icp = (locals.method = "ICP")
    /\ locals.button_svr # locals.button_icp
    /\ locals.transform = IF locals.method = "SVR" THEN "start_transform" ELSE "transform"
    /\ locals.displayed = locals.transform

\* a click on the button of the method in use
ClickOnActiveMethod ==
    \/ ClickSVR /\ locals.method = "SVR"
    \/ ClickICP /\ locals.method = "ICP"

ActiveClickChangesNothing ==
    ClickOnActiveMethod =>
        /\ locals'.method = locals.method
        /\ locals'.transform = locals.transform
        /\ locals'.displayed = locals.displayed
        /\ locals'.draws = locals.draws

\* C29: in every state the checked button, the method and the transform
\* agree, and no click on the button of the active method changes the
\* method or the transform or redraws
C29_OneMethodButtonChecked ==
    /\ []MethodButtonsAgree
    /\ [][ActiveClickChangesNothing]_vars

\* C29: the method was switched to ICP and back to SVR and a button of the
\* active method was clicked in between, with fewer redraws than clicks
C29_Witness ==
    /\ locals.clicks >= 3
    /\ locals.method = "SVR"
    /\ locals.tile = 1
    /\ locals.draws = 2
    /\ locals.clicks > locals.draws

====
